---- MODULE Spec2Model ----
(***************************************************************************)
(* grit-find (src/src/main.rs): search GitHub repositories, keep the ones  *)
(* that have a latest release, page through them locally, pick one and     *)
(* download an asset of its latest release.                                *)
(*                                                                         *)
(* The model follows one invocation of main after another.  Every await    *)
(* point of fetch_repos_page / fetch_all_repos / main is a value of pc.    *)
(* Strings that the code parses (the retry-after header, the typed choice) *)
(* are sequences of one-character strings.                                 *)
(***************************************************************************)
EXTENDS Integers, Sequences, FiniteSets, TLC

\* ------------------------------------------------------------ constants
DISPLAY_PAGE_SIZE == 25
MAX_RESULTS == 100
PER_PAGE == 100
MAX_ATTEMPTS == 3
DEFAULT_WAIT == 5
TOO_MANY_REQUESTS == 429

\* ------------------------------------------------------------ bounds
\* Only candidates numbered 1..FailIdMax may have a failing release probe.
FailIdMax == 3
\* retry-after header values that parse are 0..MaxRetryAfter.
MaxRetryAfter == 2
\* --page flag values are 0..MaxStartPage.
MaxStartPage == 5
\* typed numbers are 0..MaxChoice.
MaxChoice == 26
\* a release carries 0..MaxAssets assets.
MaxAssets == 1

\* The search texts an invocation may be given.
Queries == {"rust", "zig"}
\* How many public repositories the remote search may hold for a query.
RemoteTotals == {0, 2, 3, 37, 99, 100, 101}
\* Status codes the remote may answer with.
Statuses == {200, 300, 404, 429, 500}

None == -1

\* ------------------------------------------------------------ strings
DigitChars == <<"0", "1", "2", "3", "4", "5", "6", "7", "8", "9">>

IsDigit(c) == \E d \in 1..10 : DigitChars[d] = c

DigitValue(c) == (CHOOSE d \in 1..10 : DigitChars[d] = c) - 1

RECURSIVE DigitsValue(_)
DigitsValue(s) ==
    IF s = <<>> THEN 0
    ELSE DigitsValue(SubSeq(s, 1, Len(s) - 1)) * 10 + DigitValue(s[Len(s)])

\* str::parse::<usize>() / parse::<u64>(): an optional "+", then one or more
\* ASCII digits and nothing else; None otherwise.
ParseUnsigned(s) ==
    LET body == IF s # <<>> /\ s[1] = "+" THEN Tail(s) ELSE s
    IN  IF body # <<>> /\ \A k \in 1..Len(body) : IsDigit(body[k])
        THEN DigitsValue(body)
        ELSE None

RECURSIVE DigitsOf(_)
DigitsOf(n) ==
    IF n < 10 THEN <<DigitChars[n + 1]>>
    ELSE DigitsOf(n \div 10) \o <<DigitChars[(n % 10) + 1]>>

\* ------------------------------------------------------------ HTTP
\* HeaderMap::get("retry-after") followed by HeaderValue::to_str().
NoHeader == [present |-> FALSE, ascii |-> FALSE, text |-> <<>>]

HeaderChoices ==
    {NoHeader,
     [present |-> TRUE, ascii |-> FALSE, text |-> <<"1">>],
     [present |-> TRUE, ascii |-> TRUE, text |-> <<"s", "o", "o", "n">>],
     [present |-> TRUE, ascii |-> TRUE, text |-> <<"-", "1">>],
     [present |-> TRUE, ascii |-> TRUE, text |-> <<"+", "1">>]}
    \cup {[present |-> TRUE, ascii |-> TRUE, text |-> DigitsOf(n)] : n \in 0..MaxRetryAfter}

NoRes == [status |-> 0, retry_after |-> NoHeader, json_ok |-> FALSE]

\* What the server may answer to a search request: a rate-limit response with
\* any retry-after header, an error status, or another status whose body does
\* or does not parse as a SearchResponse.
SearchResponses ==
    {[status |-> TOO_MANY_REQUESTS, retry_after |-> h, json_ok |-> FALSE] :
        h \in HeaderChoices}
    \cup {[status |-> s, retry_after |-> NoHeader, json_ok |-> FALSE] :
            s \in Statuses \ {TOO_MANY_REQUESTS}}
    \cup {[status |-> s, retry_after |-> NoHeader, json_ok |-> TRUE] :
            s \in {200, 300}}

\* Response::error_for_status: Err exactly for client (4xx) and server (5xx)
\* error statuses.
IsErrorStatus(s) == (400 <= s /\ s <= 499) \/ (500 <= s /\ s <= 599)

IsRateLimited(s) == s = TOO_MANY_REQUESTS

\* The fallback taken as no wait at all.
WaitOfNoFallback(h) ==
    IF h.present /\ h.ascii /\ ParseUnsigned(h.text) # None
    THEN ParseUnsigned(h.text)
    ELSE 0

\* The wait read from a rate-limit response.
WaitOf(h) ==
    IF h.present /\ h.ascii /\ ParseUnsigned(h.text) # None
    THEN ParseUnsigned(h.text)
    ELSE DEFAULT_WAIT

\* A retry budget one too large.
MayRetryOnceMore(a) == a <= MAX_ATTEMPTS

MayRetry(a) == a < MAX_ATTEMPTS

\* The candidates of remote page p (1-based) of a result set of 'total'
\* repositories sorted by stars: repository k is the k-th of the set.
Min(a, b) == IF a < b THEN a ELSE b

Max(a, b) == IF a > b THEN a ELSE b

RemotePage(total, per_page, p) ==
    LET first == (p - 1) * per_page + 1
        last == Min(p * per_page, total)
    IN  [k \in 1..Max(last - first + 1, 0) |-> first + k - 1]

\* What the latest-release request of a repository may come to.
ProbeOutcomes(id) ==
    {[transport |-> FALSE, status |-> 200, json_ok |-> TRUE]}
    \cup (IF id <= FailIdMax
          THEN {[transport |-> TRUE, status |-> 0, json_ok |-> FALSE],
                [transport |-> FALSE, status |-> 404, json_ok |-> FALSE],
                [transport |-> FALSE, status |-> 429, json_ok |-> TRUE],
                [transport |-> FALSE, status |-> 500, json_ok |-> FALSE],
                [transport |-> FALSE, status |-> 200, json_ok |-> FALSE]}
          ELSE {})

NoProbe == [transport |-> FALSE, status |-> 0, json_ok |-> FALSE]

\* latest_release(...) is Ok: the request was sent, error_for_status passed
\* and the body parsed as a Release.
LatestReleaseOk(o) == ~o.transport /\ ~IsErrorStatus(o.status) /\ o.json_ok

\* ------------------------------------------------------------ state
VARIABLES
    pc,            \* where the invocation stands
    query,         \* main: query
    remoteTotal,   \* size of the remote result set for query
    completed,     \* <<query, page>> of every page fetch that has returned Ok
    all,           \* fetch_all_repos: all
    fa_page,       \* fetch_all_repos: page
    fetched,       \* fetch_all_repos: fetched
    shortPageSeen, \* a page fetch of this invocation returned fewer than per_page
    pageCalls,     \* calls of fetch_repos_page made by fetch_all_repos
    attempts,      \* fetch_repos_page: attempts
    res,           \* fetch_repos_page: res
    wait,          \* fetch_repos_page: wait
    items,         \* fetch_repos_page: search.items
    idx,           \* fetch_repos_page: position of the for loop in search.items
    with_releases, \* fetch_repos_page: with_releases
    requests,      \* search requests sent by the current fetch_repos_page call
    sleeps,        \* sleeps of the current fetch_repos_page call
    slept,         \* seconds slept since the last search response, None if none
    probes,        \* release probes sent by the current fetch_repos_page call
    probeLog,      \* for each probed item, whether its probe was Ok
    lastProbe,     \* outcome of the last release probe
    repos,         \* main: repos
    total_pages,   \* main: total_pages
    page,          \* main: page
    slice,         \* main: slice, as printed
    choice,        \* main: choice (the trimmed line), <<>> before a line is read
    msg,           \* last message printed by the paging loop
    repo,          \* main: repo (the selection), None before
    release,       \* main: number of assets of release, None before
    args_page,     \* main: args.page while the first window is up, None otherwise
    detailRequests, \* latest-release requests sent by main after the selection
    downloads,     \* asset download requests sent
    exitCode,      \* process exit code, None while running
    err,           \* which step failed, "" if none
    ppc,           \* where a run of parse_query_from_content stands, "idle" if none
    body,          \* a chat-completion content, as returned unfenced
    fenced,        \* the same content inside a code fence
    plainResult,   \* parse_query_from_content(body)
    fencedResult   \* parse_query_from_content(fenced)

vars == <<pc, query, remoteTotal, completed, all, fa_page, fetched, shortPageSeen,
          pageCalls, attempts, res,
          wait, items, idx, with_releases, requests, sleeps, slept, probes,
          probeLog, lastProbe, repos, total_pages, page, slice, choice, msg,
          repo, release, args_page, detailRequests, downloads, exitCode, err,
          ppc, body, fenced, plainResult, fencedResult>>

parseVars == <<ppc, body, fenced, plainResult, fencedResult>>

fetchVars == <<attempts, res, wait, items, idx, with_releases, requests, sleeps,
               slept, probes, probeLog, lastProbe>>

allVars == <<all, fa_page, fetched, shortPageSeen, pageCalls>>

mainVars == <<repos, total_pages, page, slice, choice, msg, repo, release, args_page,
              detailRequests, downloads>>

InitMain ==
    /\ pc = "start"
    /\ query = ""
    /\ remoteTotal = 0
    /\ completed = {}
    /\ all = <<>>
    /\ fa_page = 1
    /\ fetched = <<>>
    /\ shortPageSeen = FALSE
    /\ pageCalls = 0
    /\ attempts = 0
    /\ res = NoRes
    /\ wait = None
    /\ items = <<>>
    /\ idx = 1
    /\ with_releases = <<>>
    /\ requests = 0
    /\ sleeps = 0
    /\ slept = None
    /\ probes = 0
    /\ probeLog = <<>>
    /\ lastProbe = NoProbe
    /\ repos = <<>>
    /\ total_pages = 0
    /\ page = 0
    /\ slice = <<>>
    /\ choice = <<>>
    /\ msg = ""
    /\ repo = None
    /\ release = None
    /\ args_page = None
    /\ detailRequests = 0
    /\ downloads = 0
    /\ exitCode = None
    /\ err = ""

\* Result<String>: Ok(query) or Err.
ParseErr == [ok |-> FALSE, query |-> <<>>]

ParseOk(q) == [ok |-> TRUE, query |-> q]

Init ==
    /\ InitMain
    /\ ppc = "idle"
    /\ body = <<>>
    /\ fenced = <<>>
    /\ plainResult = ParseErr
    /\ fencedResult = ParseErr

\* ------------------------------------------------------------ fetch_repos_page
\* Entry of fetch_repos_page: locals as declared before the loop.
CallFetchReposPage ==
    /\ attempts' = 0
    /\ res' = NoRes
    /\ wait' = None
    /\ items' = <<>>
    /\ idx' = 1
    /\ with_releases' = <<>>
    /\ requests' = 0
    /\ sleeps' = 0
    /\ slept' = None
    /\ probes' = 0
    /\ probeLog' = <<>>
    /\ lastProbe' = NoProbe

\* An Err swallowed: the process ends as if nothing had failed.
FailQuietly(why) ==
    /\ pc' = "exit"
    /\ exitCode' = 0
    /\ err' = why

\* An Err leaves fetch_repos_page, fetch_all_repos (the ? of line 273) and
\* main (the ? of line 87): the process ends with a non-zero code.
Fail(why) ==
    /\ pc' = "exit"
    /\ exitCode' = 1
    /\ err' = why

\* attempts += 1; client.get(url).send().await? : the request does not get a
\* response.
SearchTransportError ==
    /\ pc = "send"
    /\ attempts' = attempts + 1
    /\ requests' = requests + 1
    /\ slept' = None
    /\ Fail("search transport")
    /\ UNCHANGED <<parseVars, query, remoteTotal, completed, allVars, res, wait, items, idx,
                   with_releases, sleeps, probes, probeLog, lastProbe, mainVars>>

\* attempts += 1; client.get(url).send().await? : a response arrives.
SendSearch ==
    /\ pc = "send"
    /\ \E r \in SearchResponses :
        /\ res' = r
        /\ pc' = IF IsRateLimited(r.status) THEN "ratelimited" ELSE "check"
    /\ attempts' = attempts + 1
    /\ requests' = requests + 1
    /\ slept' = None
    /\ UNCHANGED <<parseVars, query, remoteTotal, completed, allVars, wait, items, idx,
                   with_releases, sleeps, probes, probeLog, lastProbe, mainVars,
                   exitCode, err>>

\* let wait = ...unwrap_or(5); println!(...)
ReadRetryAfter ==
    /\ pc = "ratelimited"
    /\ wait' = WaitOf(res.retry_after)
    /\ pc' = "sleep"
    /\ UNCHANGED <<parseVars, query, remoteTotal, completed, allVars, attempts, res, items, idx,
                   with_releases, requests, sleeps, slept, probes, probeLog,
                   lastProbe, mainVars, exitCode, err>>

\* The sleep taken only when a retry follows.
SleepOnlyBeforeRetry ==
    /\ pc = "sleep"
    /\ sleeps' = IF MayRetry(attempts) THEN sleeps + 1 ELSE sleeps
    /\ slept' = IF MayRetry(attempts) THEN wait ELSE slept
    /\ wait' = None
    /\ pc' = IF MayRetry(attempts) THEN "send" ELSE "check"
    /\ UNCHANGED <<parseVars, query, remoteTotal, completed, allVars, attempts, res, items, idx,
                   with_releases, requests, probes, probeLog, lastProbe, mainVars,
                   exitCode, err>>

\* The retry without the sleep.
SleepSkipped ==
    /\ pc = "sleep"
    /\ wait' = None
    /\ pc' = IF MayRetry(attempts) THEN "send" ELSE "check"
    /\ UNCHANGED <<parseVars, query, remoteTotal, completed, allVars, attempts, res, items, idx,
                   with_releases, requests, sleeps, slept, probes, probeLog,
                   lastProbe, mainVars, exitCode, err>>

\* sleep(Duration::from_secs(wait)).await; if attempts < 3 { continue; }
Sleep ==
    /\ pc = "sleep"
    /\ sleeps' = sleeps + 1
    /\ slept' = wait
    /\ wait' = None
    /\ pc' = IF MayRetry(attempts) THEN "send" ELSE "check"
    /\ UNCHANGED <<parseVars, query, remoteTotal, completed, allVars, attempts, res, items, idx,
                   with_releases, requests, probes, probeLog, lastProbe, mainVars,
                   exitCode, err>>

\* res.error_for_status().context("GitHub search failed")? is an Err.
SearchFailed ==
    /\ pc = "check"
    /\ IsErrorStatus(res.status)
    /\ Fail("GitHub search failed")
    /\ UNCHANGED <<parseVars, query, remoteTotal, completed, allVars, fetchVars, mainVars>>

\* res.json().await? is an Err.
SearchParseError ==
    /\ pc = "check"
    /\ ~IsErrorStatus(res.status)
    /\ ~res.json_ok
    /\ Fail("search body")
    /\ UNCHANGED <<parseVars, query, remoteTotal, completed, allVars, fetchVars, mainVars>>

\* let search: SearchResponse = res.json().await?; let mut with_releases = Vec::new();
SearchParsed ==
    /\ pc = "check"
    /\ ~IsErrorStatus(res.status)
    /\ res.json_ok
    /\ items' = RemotePage(remoteTotal, PER_PAGE, fa_page)
    /\ with_releases' = <<>>
    /\ idx' = 1
    /\ pc' = "filter"
    /\ UNCHANGED <<parseVars, query, remoteTotal, completed, allVars, attempts, res, wait,
                   requests, sleeps, slept, probes, probeLog, lastProbe, mainVars,
                   exitCode, err>>

\* A kept item put in front instead of pushed at the back.
KeepInFront(acc, item, o) == IF LatestReleaseOk(o) THEN <<item>> \o acc ELSE acc

\* One turn of the for loop: probe the item, push it when the probe is Ok.
Keep(acc, item, o) == IF LatestReleaseOk(o) THEN Append(acc, item) ELSE acc

\* The probe's Err propagated with ? instead of dropping the item.
ProbeReleaseOrFail ==
    /\ pc = "filter"
    /\ idx <= Len(items)
    /\ \E o \in ProbeOutcomes(items[idx]) :
        /\ lastProbe' = o
        /\ probeLog' = Append(probeLog, LatestReleaseOk(o))
        /\ with_releases' = Keep(with_releases, items[idx], o)
        /\ IF LatestReleaseOk(o)
           THEN UNCHANGED <<pc, exitCode, err>>
           ELSE Fail("release probe")
    /\ probes' = probes + 1
    /\ idx' = idx + 1
    /\ UNCHANGED <<parseVars, query, remoteTotal, completed, allVars, attempts, res, wait,
                   items, requests, sleeps, slept, mainVars>>

ProbeRelease ==
    /\ pc = "filter"
    /\ idx <= Len(items)
    /\ \E o \in ProbeOutcomes(items[idx]) :
        /\ lastProbe' = o
        /\ probeLog' = Append(probeLog, LatestReleaseOk(o))
        /\ with_releases' = Keep(with_releases, items[idx], o)
    /\ probes' = probes + 1
    /\ idx' = idx + 1
    /\ UNCHANGED <<parseVars, pc, query, remoteTotal, completed, allVars, attempts, res, wait,
                   items, requests, sleeps, slept, mainVars, exitCode, err>>

\* return Ok(with_releases);
ReturnPage ==
    /\ pc = "filter"
    /\ idx > Len(items)
    /\ fetched' = with_releases
    /\ completed' = completed \cup {<<query, fa_page>>}
    /\ shortPageSeen' = (shortPageSeen \/ Len(with_releases) < PER_PAGE)
    /\ pc' = "fetched"
    /\ UNCHANGED <<parseVars, query, remoteTotal, all, fa_page, pageCalls, fetchVars, mainVars,
                   exitCode, err>>

\* ------------------------------------------------------------ fetch_all_repos
LoopCond(a) == Len(a) < MAX_RESULTS

\* A page one short of per_page not taken as short.
ShortPageOffByOne(fetched_len, per_page) == fetched_len < per_page - 1

\* A short page not taken as the end.
ShortPageNever(fetched_len, per_page) == FALSE

ShortPage(fetched_len, per_page) == fetched_len < per_page

Truncate(a, n) == SubSeq(a, 1, Min(Len(a), n))

\* let mut all = Vec::new(); let mut page = 1; while all.len() < MAX_RESULTS {
\*     let fetched = fetch_repos_page(client, query, per_page, page).await?;
FetchAllRepos ==
    /\ pc = "fetch_all"
    /\ all' = <<>>
    /\ fa_page' = 1
    /\ fetched' = <<>>
    /\ shortPageSeen' = FALSE
    /\ pc' = IF LoopCond(<<>>) THEN "send" ELSE "fetched_all"
    /\ pageCalls' = IF LoopCond(<<>>) THEN 1 ELSE 0
    /\ CallFetchReposPage
    /\ UNCHANGED <<parseVars, query, remoteTotal, completed, mainVars, exitCode, err>>

\* The rest of the loop body after fetch_repos_page has returned Ok, and the
\* loop condition that follows it.  The locals of the returned call are gone;
\* a next turn of the loop calls fetch_repos_page afresh.
AfterFetch ==
    /\ pc = "fetched"
    /\ IF fetched = <<>>
       THEN /\ pc' = "fetched_all"
            /\ UNCHANGED <<all, fa_page>>
       ELSE LET grown == all \o fetched
            IN  IF Len(grown) >= MAX_RESULTS
                THEN /\ all' = Truncate(grown, MAX_RESULTS)
                     /\ pc' = "fetched_all"
                     /\ UNCHANGED fa_page
                ELSE IF ShortPage(Len(fetched), PER_PAGE)
                THEN /\ all' = grown
                     /\ pc' = "fetched_all"
                     /\ UNCHANGED fa_page
                ELSE /\ all' = grown
                     /\ fa_page' = fa_page + 1
                     /\ pc' = IF LoopCond(grown) THEN "send" ELSE "fetched_all"
    /\ pageCalls' = IF pc' = "send" THEN pageCalls + 1 ELSE pageCalls
    /\ CallFetchReposPage
    /\ UNCHANGED <<parseVars, query, remoteTotal, completed, fetched, shortPageSeen, mainVars,
                   exitCode, err>>

\* ------------------------------------------------------------ main
\* str::trim: leading and trailing white space goes.
IsBlank(c) == c \in {" ", "\t", "\n", "\r"}

RECURSIVE TrimStart(_)
TrimStart(s) == IF s # <<>> /\ IsBlank(s[1]) THEN TrimStart(Tail(s)) ELSE s

RECURSIVE TrimEnd(_)
TrimEnd(s) ==
    IF s # <<>> /\ IsBlank(s[Len(s)]) THEN TrimEnd(SubSeq(s, 1, Len(s) - 1)) ELSE s

Trim(s) == TrimEnd(TrimStart(s))

\* u8::to_ascii_lowercase, on the letters the typed lines are made of.
ToAsciiLower(c) ==
    CASE c = "N" -> "n"
      [] c = "P" -> "p"
      [] c = "C" -> "c"
      [] c = "X" -> "x"
      [] OTHER -> c

EqIgnoreAsciiCase(s, t) ==
    /\ Len(s) = Len(t)
    /\ \A k \in 1..Len(s) : ToAsciiLower(s[k]) = ToAsciiLower(t[k])

\* The lines a user may type at the prompt.
Inputs ==
    {<<"n">>, <<"N">>, <<" ", "n", " ">>, <<"p">>, <<"P">>, <<"c">>, <<"C">>,
     <<"x">>, <<>>, <<"n", "n">>, <<"-", "1">>, <<"+", "2">>, <<" ", "1">>,
     <<"1", " ", "2">>}
    \cup {DigitsOf(k) : k \in 0..MaxChoice}

\* The page count rounded down.
TotalPagesFloor(len) == len \div DISPLAY_PAGE_SIZE

TotalPages(len) == (len + DISPLAY_PAGE_SIZE - 1) \div DISPLAY_PAGE_SIZE

\* The flag clamped from below only.
ClampPageUnbounded(flag, total) == Max(flag, 1)

\* The flag clamped from above only.
ClampPageNoFloor(flag, total) == Min(flag, Max(total, 1))

ClampPage(flag, total) == Min(Max(flag, 1), Max(total, 1))

SliceStart(p) == (p - 1) * DISPLAY_PAGE_SIZE

SliceEnd(start, len) == Min(start + DISPLAY_PAGE_SIZE, len)

\* &repos[start..end], 0-based and end-exclusive.
Slice(r, start, end) == SubSeq(r, start + 1, end)

InWindow(num, len) == num >= 1 /\ num <= len

Exit(code) ==
    /\ pc' = "exit"
    /\ exitCode' = code
    /\ err' = ""

\* The query comes from the arguments, the prompt or ai_suggest_query.
StartRun ==
    /\ pc = "start"
    /\ \E q \in Queries, t \in RemoteTotals :
        /\ query' = q
        /\ remoteTotal' = t
    /\ pc' = "fetch_all"
    /\ UNCHANGED <<parseVars, completed, allVars, fetchVars, mainVars, exitCode, err>>

\* interact_text()?, ai_suggest_query(...).await? or github_client()? is an Err.
StartFailed ==
    /\ pc = "start"
    /\ Fail("query")
    /\ UNCHANGED <<parseVars, query, remoteTotal, completed, allVars, fetchVars, mainVars>>

\* The paging loop entered without the test for an empty result.
ReposFetchedNoEmptyCheck ==
    /\ pc = "fetched_all"
    /\ repos' = all
    /\ total_pages' = TotalPages(Len(all))
    /\ \E flag \in 0..MaxStartPage :
        /\ args_page' = flag
        /\ page' = ClampPage(flag, TotalPages(Len(all)))
    /\ pc' = "display"
    /\ UNCHANGED <<parseVars, query, remoteTotal, completed, allVars, fetchVars, slice, choice,
                   msg, repo, release, detailRequests, downloads, exitCode, err>>

\* let repos = fetch_all_repos(...).await?; if repos.is_empty() { ...; return Ok(()) }
\* let total_pages = ...; let mut page = args.page.max(1).min(total_pages.max(1));
ReposFetched ==
    /\ pc = "fetched_all"
    /\ repos' = all
    /\ IF all = <<>>
       THEN /\ msg' = "No repositories found"
            /\ Exit(0)
            /\ UNCHANGED <<total_pages, page, args_page>>
       ELSE /\ total_pages' = TotalPages(Len(all))
            /\ \E flag \in 0..MaxStartPage :
                /\ args_page' = flag
                /\ page' = ClampPage(flag, TotalPages(Len(all)))
            /\ pc' = "display"
            /\ UNCHANGED <<msg, exitCode, err>>
    /\ UNCHANGED <<parseVars, query, remoteTotal, completed, allVars, fetchVars, slice, choice,
                   repo, release, detailRequests, downloads>>

\* A window that asks the remote for its page, as a remote-paginated loop would.
DisplayRefetching ==
    /\ pc = "display"
    /\ slice' = Slice(repos, SliceStart(page), SliceEnd(SliceStart(page), Len(repos)))
    /\ choice' = <<>>
    /\ requests' = Min(requests + 1, MAX_ATTEMPTS)
    /\ pc' = "prompt"
    /\ UNCHANGED <<parseVars, query, remoteTotal, completed, allVars, attempts, res, wait, items,
                   idx, with_releases, sleeps, slept, probes, probeLog, lastProbe,
                   repos, total_pages, page, msg, repo, release, args_page,
                   detailRequests, downloads, exitCode, err>>

\* Top of the paging loop: the window is cut and printed.
Display ==
    /\ pc = "display"
    /\ slice' = Slice(repos, SliceStart(page), SliceEnd(SliceStart(page), Len(repos)))
    /\ choice' = <<>>
    /\ pc' = "prompt"
    /\ UNCHANGED <<parseVars, query, remoteTotal, completed, allVars, fetchVars, repos,
                   total_pages, page, msg, repo, release, args_page, detailRequests,
                   downloads, exitCode, err>>

\* The typed number used as a 0-based index.
PickOffByOne(sl, num) == sl[Min(num + 1, Len(sl))]

\* slice[num - 1], num counted from 1.
Pick(sl, num) == sl[num]

\* The typed line is read and acted on.
Prompt ==
    /\ pc = "prompt"
    /\ \E line \in Inputs :
        LET trimmed == Trim(line)
            num == ParseUnsigned(trimmed)
        IN  /\ choice' = trimmed
            /\ IF EqIgnoreAsciiCase(trimmed, <<"n">>)
               THEN /\ IF page < total_pages
                       THEN page' = page + 1 /\ msg' = ""
                       ELSE page' = page /\ msg' = "No more pages."
                    /\ pc' = "display"
                    /\ UNCHANGED <<repo, exitCode, err>>
               ELSE IF EqIgnoreAsciiCase(trimmed, <<"p">>)
               THEN /\ IF page > 1
                       THEN page' = page - 1 /\ msg' = ""
                       ELSE page' = page /\ msg' = "Already at the first page."
                    /\ pc' = "display"
                    /\ UNCHANGED <<repo, exitCode, err>>
               ELSE IF EqIgnoreAsciiCase(trimmed, <<"c">>)
               THEN /\ Exit(0)
                    /\ msg' = ""
                    /\ UNCHANGED <<page, repo>>
               ELSE IF num # None /\ InWindow(num, Len(slice))
               THEN /\ repo' = Pick(slice, num)
                    /\ msg' = ""
                    /\ pc' = "release"
                    /\ UNCHANGED <<page, exitCode, err>>
               ELSE /\ msg' = "Invalid choice."
                    /\ pc' = "display"
                    /\ UNCHANGED <<page, repo, exitCode, err>>
    /\ args_page' = None
    /\ UNCHANGED <<parseVars, query, remoteTotal, completed, allVars, fetchVars, repos,
                   total_pages, slice, release, detailRequests, downloads>>

\* interact_text()? is an Err.
PromptFailed ==
    /\ pc = "prompt"
    /\ Fail("prompt")
    /\ UNCHANGED <<parseVars, query, remoteTotal, completed, allVars, fetchVars, mainVars>>

\* let release = latest_release(&github, &repo.full_name).await?;
\* if release.assets.is_empty() { ...; return Ok(()) }
ReleaseFetched ==
    /\ pc = "release"
    /\ \E n \in 0..MaxAssets :
        /\ release' = n
        /\ IF n = 0
           THEN msg' = "no downloadable assets" /\ Exit(0)
           ELSE pc' = "download" /\ UNCHANGED <<msg, exitCode, err>>
    /\ detailRequests' = detailRequests + 1
    /\ UNCHANGED <<parseVars, query, remoteTotal, completed, allVars, fetchVars, repos,
                   total_pages, page, slice, choice, repo, args_page, downloads>>

ReleaseFailed ==
    /\ pc = "release"
    /\ Fail("release")
    /\ detailRequests' = detailRequests + 1
    /\ UNCHANGED <<parseVars, query, remoteTotal, completed, allVars, fetchVars, repos,
                   total_pages, page, slice, choice, msg, repo, release, args_page,
                   downloads>>

\* The asset is chosen, the directory made and the asset downloaded.
Downloaded ==
    /\ pc = "download"
    /\ msg' = "Done."
    /\ Exit(0)
    /\ downloads' = downloads + 1
    /\ UNCHANGED <<parseVars, query, remoteTotal, completed, allVars, fetchVars, repos,
                   total_pages, page, slice, choice, repo, release, args_page,
                   detailRequests>>

\* interact()?, create_dir_all(...).await? or download_asset(...).await? is an Err.
DownloadFailed ==
    /\ pc = "download"
    /\ Fail("download")
    /\ \E sent \in BOOLEAN : downloads' = IF sent THEN downloads + 1 ELSE downloads
    /\ UNCHANGED <<parseVars, query, remoteTotal, completed, allVars, fetchVars, repos,
                   total_pages, page, slice, choice, msg, repo, release, args_page,
                   detailRequests>>

\* The tool is invoked again: nothing of the previous process is left.
Restart ==
    /\ pc = "exit"
    /\ pc' = "start"
    /\ query' = ""
    /\ remoteTotal' = 0
    /\ all' = <<>>
    /\ fa_page' = 1
    /\ fetched' = <<>>
    /\ shortPageSeen' = FALSE
    /\ CallFetchReposPage
    /\ repos' = <<>>
    /\ total_pages' = 0
    /\ page' = 0
    /\ slice' = <<>>
    /\ choice' = <<>>
    /\ msg' = ""
    /\ repo' = None
    /\ release' = None
    /\ args_page' = None
    /\ detailRequests' = 0
    /\ downloads' = 0
    /\ pageCalls' = 0
    /\ exitCode' = None
    /\ err' = ""
    /\ UNCHANGED <<completed, parseVars>>

Next ==
    \/ StartRun
    \/ StartFailed
    \/ FetchAllRepos
    \/ SearchTransportError
    \/ SendSearch
    \/ ReadRetryAfter
    \/ Sleep
    \/ SearchFailed
    \/ SearchParseError
    \/ SearchParsed
    \/ ProbeRelease
    \/ ReturnPage
    \/ AfterFetch
    \/ ReposFetched
    \/ Display
    \/ Prompt
    \/ PromptFailed
    \/ ReleaseFetched
    \/ ReleaseFailed
    \/ Downloaded
    \/ DownloadFailed
    \/ Restart

Spec == Init /\ [][Next]_vars

\* ------------------------------------------------------------ parse_query_from_content
Quote == "\""

\* The grave accent, the character a code fence is made of.
Backtick == "grave"

FenceMark == <<Backtick, Backtick, Backtick>>

QueryKey == <<"q", "u", "e", "r", "y">>

\* White space between JSON tokens.
IsJsonWs(c) == c \in {" ", "\t", "\n", "\r"}

\* The first position from i on that holds no JSON white space.
RECURSIVE SkipWs(_, _)
SkipWs(s, i) == IF i <= Len(s) /\ IsJsonWs(s[i]) THEN SkipWs(s, i + 1) ELSE i

At(s, i, c) == i <= Len(s) /\ s[i] = c

\* The closing quote of the JSON string that opens at position i, None when
\* the string is not closed or holds a raw line break.  (The strings of the
\* model hold no escape.)
RECURSIVE StringEnd(_, _)
StringEnd(s, i) ==
    IF i + 1 > Len(s) THEN None
    ELSE IF s[i + 1] = Quote THEN i + 1
    ELSE IF s[i + 1] \in {"\n", "\r"} THEN None
    ELSE StringEnd(s, i + 1)

\* serde_json::from_str::<Suggestion>, on objects of one string member:
\* white space, {, "query", :, a string, }, white space, and nothing else.
FromStrSuggestion(s) ==
    LET i1 == SkipWs(s, 1)
        i2 == SkipWs(s, i1 + 1)
        e2 == StringEnd(s, i2)
        i3 == SkipWs(s, e2 + 1)
        i4 == SkipWs(s, i3 + 1)
        e4 == StringEnd(s, i4)
        i5 == SkipWs(s, e4 + 1)
        i6 == SkipWs(s, i5 + 1)
    IN  IF /\ At(s, i1, "{")
           /\ At(s, i2, Quote)
           /\ e2 # None
           /\ SubSeq(s, i2 + 1, e2 - 1) = QueryKey
           /\ At(s, i3, ":")
           /\ At(s, i4, Quote)
           /\ e4 # None
           /\ At(s, i5, "}")
           /\ i6 = Len(s) + 1
        THEN ParseOk(SubSeq(s, i4 + 1, e4 - 1))
        ELSE ParseErr

StartsWith(s, prefix) ==
    Len(s) >= Len(prefix) /\ SubSeq(s, 1, Len(prefix)) = prefix

\* The position of the first line feed of s from i on, Len(s) + 1 without one.
RECURSIVE LineEnd(_, _)
LineEnd(s, i) == IF i > Len(s) \/ s[i] = "\n" THEN i ELSE LineEnd(s, i + 1)

\* str::lines from position i on: the text between line feeds, without a
\* last empty line.  (The texts of the model hold no carriage return.)
RECURSIVE LinesFrom(_, _)
LinesFrom(s, i) ==
    IF i > Len(s) THEN <<>>
    ELSE LET e == LineEnd(s, i)
         IN  <<SubSeq(s, i, e - 1)>> \o LinesFrom(s, e + 1)

Lines(s) == LinesFrom(s, 1)

\* The lines up to the first one that is the closing fence.
RECURSIVE BodyLines(_)
BodyLines(ls) ==
    IF ls = <<>> \/ Trim(ls[1]) = FenceMark THEN <<>>
    ELSE <<ls[1]>> \o BodyLines(Tail(ls))

\* [&str]::join("\n")
RECURSIVE JoinLines(_)
JoinLines(ls) ==
    IF ls = <<>> THEN <<>>
    ELSE IF Len(ls) = 1 THEN ls[1]
    ELSE ls[1] \o <<"\n">> \o JoinLines(Tail(ls))

\* Option<String>: Some(text) or None.
NoneStr == [some |-> FALSE, text |-> <<>>]

SomeStr(t) == [some |-> TRUE, text |-> t]

\* Only the three backticks dropped, the language tag left in the body.
StripCodeFencePrefixOnly(input) ==
    IF ~StartsWith(input, FenceMark) THEN NoneStr
    ELSE LET body_lines == BodyLines(Lines(SubSeq(input, 4, Len(input))))
         IN  IF body_lines = <<>> THEN NoneStr
             ELSE SomeStr(Trim(JoinLines(body_lines)))

StripCodeFence(input) ==
    IF ~StartsWith(input, FenceMark) THEN NoneStr
    ELSE LET lines == Lines(input)
             body_lines == BodyLines(Tail(lines))
         IN  IF body_lines = <<>> THEN NoneStr
             ELSE SomeStr(Trim(JoinLines(body_lines)))

ParseQueryFromContent(content) ==
    IF FromStrSuggestion(content).ok THEN FromStrSuggestion(content)
    ELSE LET stripped == StripCodeFence(Trim(content))
         IN  IF stripped.some /\ FromStrSuggestion(stripped.text).ok
             THEN FromStrSuggestion(stripped.text)
             ELSE ParseErr

\* The contents a chat completion may return.
OuterWs == {<<>>, <<" ">>, <<"\n">>}

InnerWs == {<<>>, <<"\n">>}

Keys == {QueryKey, <<"q">>}

Values ==
    {<<"r", "i", "p", "g", "r", "e", "p">>, <<>>, FenceMark, <<"a", " ", "{", "}">>}

Quoted(t) == <<Quote>> \o t \o <<Quote>>

Bodies ==
    {w1 \o <<"{">> \o w2 \o Quoted(k) \o w3 \o <<":">> \o w4 \o Quoted(v) \o w5
        \o <<"}">> \o w6 :
        w1 \in OuterWs, w2 \in InnerWs, k \in Keys, w3 \in InnerWs, w4 \in InnerWs,
        v \in Values, w5 \in InnerWs, w6 \in OuterWs}
    \cup {<<"r", "g">>, <<>>, <<"{", "}">>,
          <<"{">> \o Quoted(QueryKey) \o <<":">> \o Quoted(<<"r", "g">>),
          Quoted(<<"r", "g">>)}

Tags == {<<>>, <<"j", "s", "o", "n">>}

\* The body between an opening fence line with a language tag and a closing
\* fence line.
Fence(lead, tag, b, indent, trail) ==
    lead \o FenceMark \o tag \o <<"\n">> \o b \o <<"\n">> \o indent \o FenceMark \o trail

modelVars == <<pc, query, remoteTotal, completed, allVars, fetchVars, mainVars,
               exitCode, err>>

InitParse ==
    /\ InitMain
    /\ ppc = "content"
    /\ body \in Bodies
    /\ \E lead \in {<<>>, <<"\n">>}, tag \in Tags, indent \in {<<>>, <<" ">>},
          trail \in {<<>>, <<"\n">>} :
        fenced = Fence(lead, tag, body, indent, trail)
    /\ plainResult = ParseErr
    /\ fencedResult = ParseErr

\* parse_query_from_content on the content as it is.
ParsePlain ==
    /\ ppc = "content"
    /\ plainResult' = ParseQueryFromContent(body)
    /\ ppc' = "plain"
    /\ UNCHANGED <<modelVars, body, fenced, fencedResult>>

\* parse_query_from_content on the fenced content.
ParseFenced ==
    /\ ppc = "plain"
    /\ fencedResult' = ParseQueryFromContent(fenced)
    /\ ppc' = "done"
    /\ UNCHANGED <<modelVars, body, fenced, plainResult>>

NextParse ==
    \/ ParsePlain
    \/ ParseFenced

SpecParse == InitParse /\ [][NextParse]_vars

\* ------------------------------------------------------------ properties
InFetch == pc \in {"ratelimited", "sleep", "check", "filter"}

IsSuccess(st) == 200 <= st /\ st <= 299

\* The wait a rate-limit response advises: the retry-after header read as a
\* number of seconds, 5 seconds without one.
AdvisedWait(h) ==
    IF h.present /\ h.ascii /\ ParseUnsigned(h.text) >= 0
    THEN ParseUnsigned(h.text)
    ELSE 5

\* The items whose probe, by the log, was Ok, in the order of the items.
RECURSIVE KeptByLog(_, _)
KeptByLog(its, log) ==
    IF its = <<>> \/ log = <<>> THEN <<>>
    ELSE (IF log[1] THEN <<its[1]>> ELSE <<>>) \o KeptByLog(Tail(its), Tail(log))

\* C1: a call of fetch_repos_page sends at most 3 search requests; after 3
\* rate-limit responses it has sent exactly 3, sends no fourth and fails with
\* the search error of the third response.
C1_AtMostThreeAttempts ==
    /\ requests <= 3
    /\ sleeps <= 3
    /\ sleeps = 3 =>
        /\ requests = 3
        /\ IsRateLimited(res.status)
        /\ pc \in {"check", "exit"}
        /\ pc = "exit" => (err = "GitHub search failed" /\ exitCode = 1)

C1_Witness ==
    /\ pc = "exit"
    /\ sleeps = 3
    /\ requests = 3
    /\ err = "GitHub search failed"

\* C2: a retry is sent only after a rate-limit response and a sleep of the
\* wait that response advised, and the page returned after one or two
\* rate-limit responses is the release-filtered list of the success response.
C2_RetryThenSuccess ==
    /\ (pc = "send" /\ attempts >= 1) =>
        /\ IsRateLimited(res.status)
        /\ sleeps = attempts
        /\ slept = AdvisedWait(res.retry_after)
    /\ (pc = "fetched" /\ attempts \in {2, 3}) =>
        /\ ~IsRateLimited(res.status)
        /\ sleeps = attempts - 1
        /\ requests = attempts
        /\ Len(probeLog) = Len(items)
        /\ fetched = KeptByLog(items, probeLog)

C2_Witness ==
    /\ pc = "fetched"
    /\ attempts = 3
    /\ sleeps = 2
    /\ IsSuccess(res.status)
    /\ items = <<1, 2, 3>>
    /\ fetched = <<1, 3>>

\* C3: after a search response whose status is neither a success nor 429, and
\* after a transport failure of the search request, the fetch fails at once:
\* no sleep, no further request, no release probe, and the run ends non-zero.
C3_OtherStatusFailsAtOnce ==
    /\ (requests > 0 /\ ~IsSuccess(res.status) /\ ~IsRateLimited(res.status)) =>
        /\ pc \in {"check", "exit"}
        /\ slept = None
        /\ probes = 0
        /\ pc = "exit" => exitCode = 1
    /\ err = "search transport" =>
        /\ pc = "exit"
        /\ exitCode = 1
        /\ slept = None
        /\ probes = 0

\* C4: the page returned is exactly the items whose probe was Ok, in the order
\* of the response, none twice and none added.
C4_StableFilter ==
    /\ pc = "filter" => Len(with_releases) <= idx - 1
    /\ pc = "fetched" =>
        /\ Len(probeLog) = Len(items)
        /\ fetched = KeptByLog(items, probeLog)
        /\ \A i, j \in 1..Len(fetched) : i < j => fetched[i] < fetched[j]
        /\ \A i \in 1..Len(fetched) : \E k \in 1..Len(items) : items[k] = fetched[i]

C4_Witness ==
    /\ pc = "fetched"
    /\ items = <<1, 2, 3>>
    /\ probeLog = <<TRUE, FALSE, TRUE>>
    /\ fetched = <<1, 3>>

\* C5: a failed release probe, whatever its cause, ends neither the filter nor
\* the fetch and is not repeated: the item is dropped, the loop moves to the
\* next item, and the page is returned once every item has been probed once.
C5_ProbeFailureDropsOnly ==
    [][pc = "filter" =>
        /\ pc' \in {"filter", "fetched"}
        /\ exitCode' = None
        /\ idx <= Len(items) =>
            /\ pc' = "filter"
            /\ idx' = idx + 1
            /\ probes' = probes + 1
            /\ ~LatestReleaseOk(lastProbe') => with_releases' = with_releases
        /\ pc' = "fetched" =>
            /\ probes = Len(items)
            /\ fetched' = with_releases]_vars

C5_Witness ==
    /\ pc = "fetched"
    /\ Len(items) = 100
    /\ probes = 100
    /\ probeLog[1] = FALSE
    /\ probeLog[2] = FALSE
    /\ probeLog[3] = TRUE
    /\ fetched[1] = 3
    /\ Len(fetched) = 98

\* C6: fetch_all_repos ends only with the budget of 100 reached or with every
\* remote result on a page it has asked for.
C6_StopsOnlyWhenDone ==
    pc = "fetched_all" =>
        \/ Len(all) >= 100
        \/ fa_page * PER_PAGE >= remoteTotal

\* C7: a search request for (query, page) is sent only when no earlier fetch
\* of (query, page) has returned.
C7_SecondFetchFromCache ==
    (InFetch /\ requests > 0) => <<query, fa_page>> \notin completed

\* C8: once a page fetch of fetch_all_repos has returned fewer candidates than
\* the requested page size, fetch_all_repos sends no further search request.
C8_NoFetchAfterShortPage ==
    shortPageSeen => (pc # "send" /\ ~InFetch)

C8_Witness ==
    /\ pc = "fetched_all"
    /\ shortPageSeen
    /\ Len(all) = 37
    /\ remoteTotal = 37

\* C9: the window printed for page p is indices (p-1)*25 .. min(p*25, L)-1 of
\* the L accumulated candidates, every candidate is in the window of exactly
\* one of the pages 1..total_pages, and 'next' on the last page prints
\* "No more pages." and leaves the page as it is.
C9_Shown ==
    LET L == Len(repos)
    IN  /\ slice = [k \in 1..(Min(page * 25, L) - (page - 1) * 25) |->
                        repos[(page - 1) * 25 + k]]
        /\ \A i \in 1..L :
            Cardinality({p \in 1..total_pages :
                            (p - 1) * 25 < i /\ i <= Min(p * 25, L)}) = 1

C9_Windows ==
    [][/\ pc' = "prompt" => C9_Shown'
       /\ (pc = "prompt" /\ choice' \in {<<"n">>, <<"N">>} /\ page = total_pages) =>
            /\ msg' = "No more pages."
            /\ page' = page
            /\ pc' = "display"
       /\ (pc = "display" /\ msg = "No more pages.") => slice' = slice]_vars

C9_Witness ==
    /\ pc = "prompt"
    /\ Len(repos) = 37
    /\ page = 2
    /\ msg = "No more pages."
    /\ slice = [k \in 1..12 |-> repos[25 + k]]

\* C10: a typed line selects a candidate only when it is a number n with
\* 1 <= n <= the size of the printed window, and the candidate is then entry n
\* of the window; every other line that is no command selects nothing, keeps
\* the page and leads back to the prompt.
IsCommand(c) == c \in {<<"n">>, <<"N">>, <<"p">>, <<"P">>, <<"c">>, <<"C">>}

C10_SelectionInWindow ==
    [][(pc = "prompt" /\ err' # "prompt") =>
        LET n == ParseUnsigned(choice')
        IN  /\ pc' = "release" =>
                /\ 1 <= n /\ n <= Len(slice)
                /\ repo' = slice[n]
                /\ repo' = repos[(page - 1) * 25 + n]
                /\ page' = page
            /\ (~IsCommand(choice') /\ ~(1 <= n /\ n <= Len(slice))) =>
                /\ pc' = "display"
                /\ msg' = "Invalid choice."
                /\ repo' = None
                /\ page' = page]_vars

C10_Witness ==
    /\ pc = "display"
    /\ msg = "Invalid choice."
    /\ choice = <<"2", "6">>
    /\ page = 1
    /\ Len(repos) = 37
    /\ repo = None

\* C11: while the paging loop runs, and until a candidate is selected, no
\* search request, release probe, release request or download is sent; a
\* release request of main is sent only with a candidate selected.
C11_PagingIsLocal ==
    /\ (pc \in {"fetched_all", "display", "prompt"} \/ (repos # <<>> /\ repo = None)) =>
        /\ requests = 0
        /\ probes = 0
        /\ detailRequests = 0
        /\ downloads = 0
    /\ (detailRequests > 0 \/ downloads > 0) => repo # None

C11_Witness ==
    /\ pc = "prompt"
    /\ args_page = None
    /\ Len(repos) = 100
    /\ page = 3
    /\ msg = "Invalid choice."
    /\ requests = 0
    /\ probes = 0
    /\ detailRequests = 0

\* C12: the first page shown is the --page flag clamped into 1..total_pages,
\* total_pages being ceil(L/25) for the L > 0 accumulated candidates.
C12_StartPageClamped ==
    args_page # None =>
        LET tp == (Len(repos) + 24) \div 25
        IN  /\ Len(repos) > 0
            /\ pc \in {"display", "prompt"} \/ err = "prompt"
            /\ total_pages = tp
            /\ page = IF args_page < 1 THEN 1
                      ELSE IF args_page > tp THEN tp
                      ELSE args_page

C12_Witness ==
    /\ pc = "prompt"
    /\ args_page = 5
    /\ Len(repos) = 37
    /\ page = 2

\* C13: with no candidate the run prints "No repositories found" and ends
\* without a window or a prompt; "No more pages." is printed only for 'next'
\* on the last page of a result that is not empty.
C13_EmptyIsNotNoMorePages ==
    /\ (pc \in {"display", "prompt", "release", "download"}) => repos # <<>>
    /\ msg = "No repositories found" =>
        /\ pc = "exit"
        /\ exitCode = 0
        /\ repos = <<>>
        /\ slice = <<>>
        /\ page = 0
    /\ msg = "No more pages." =>
        /\ repos # <<>>
        /\ page = total_pages
        /\ pc = "display" => choice \in {<<"n">>, <<"N">>}

C13_Witness ==
    /\ pc = "exit"
    /\ msg = "No repositories found"
    /\ remoteTotal = 3
    /\ exitCode = 0

\* C14: the run ends with code 0 when it completes, when the search yields
\* nothing and when the user cancels (no release request and no download
\* after a cancel); it ends with a non-zero code when the query step, a
\* search fetch, the release fetch, the prompt or the download fails.
C14_ExitCodes ==
    /\ pc # "exit" => exitCode = None
    /\ pc = "exit" =>
        /\ exitCode \in {0, 1}
        /\ msg \in {"Done.", "No repositories found", "no downloadable assets"} =>
            exitCode = 0
        /\ (choice \in {<<"c">>, <<"C">>} /\ err = "") =>
            /\ exitCode = 0
            /\ repo = None
            /\ detailRequests = 0
            /\ downloads = 0
        /\ err \in {"query", "search transport", "GitHub search failed", "search body",
                    "prompt", "release", "download"} => exitCode # 0
        /\ exitCode = 0 => err = ""

C14_Witness ==
    /\ pc = "exit"
    /\ choice = <<"C">>
    /\ exitCode = 0
    /\ page = 2
    /\ detailRequests = 0

\* C16: in the paging loop 1 <= page <= total_pages, the printed window is a
\* non-empty slice inside the accumulated sequence, and 'next' on the last
\* page and 'previous' on the first page leave the page as it is.
C16_PageOK ==
    /\ 1 <= page
    /\ page <= total_pages
    /\ pc = "prompt" =>
        /\ Len(slice) >= 1
        /\ (page - 1) * 25 + Len(slice) <= Len(repos)
        /\ \A k \in 1..Len(slice) : slice[k] = repos[(page - 1) * 25 + k]

C16_PageInRange ==
    [][/\ pc' \in {"display", "prompt"} => C16_PageOK'
       /\ (pc = "prompt" /\ pc' = "display" /\ choice' \in {<<"n">>, <<"N">>}
            /\ page = total_pages) => page' = page
       /\ (pc = "prompt" /\ pc' = "display" /\ choice' \in {<<"p">>, <<"P">>}
            /\ page = 1) => page' = page]_vars

C16_Witness ==
    /\ pc = "prompt"
    /\ msg = "Already at the first page."
    /\ page = 1
    /\ total_pages = 4
    /\ Len(slice) = 25

\* C17: the sleep after a rate-limit response lasts the seconds of its
\* retry-after header when the header is there and parses as a non-negative
\* integer, and 5 seconds otherwise.
C17_SleepDuration ==
    LET h == res.retry_after
        expected == IF h.present /\ h.ascii /\ ParseUnsigned(h.text) >= 0
                    THEN ParseUnsigned(h.text)
                    ELSE 5
    IN  /\ pc = "sleep" => (IsRateLimited(res.status) /\ wait = expected)
        /\ slept # None => (IsRateLimited(res.status) /\ slept = expected)

C17_Witness ==
    /\ pc = "send"
    /\ res.retry_after.text = <<"s", "o", "o", "n">>
    /\ slept = 5
    /\ sleeps = 2

\* C18: fetch_all_repos calls fetch_repos_page once, for page 1, never for
\* page 2, and returns at most 100 candidates.
C18_OnePageOnly ==
    /\ fa_page = 1
    /\ pageCalls <= 1
    /\ Len(all) <= 100
    /\ (pc \in {"send", "fetched", "fetched_all"} \/ InFetch) => pageCalls = 1

C18_Witness ==
    /\ pc = "fetched_all"
    /\ remoteTotal = 101
    /\ Len(all) = 100
    /\ pageCalls = 1
    /\ fa_page = 1

\* C19: every rate-limit response is followed by one sleep before the next
\* request or the failure: after 3 rate-limit responses the fetch has slept 3
\* times, and it reports the failure only after the third sleep.
C19_SleepAfterEvery429 ==
    /\ pc \in {"ratelimited", "sleep"} =>
        /\ IsRateLimited(res.status)
        /\ sleeps = attempts - 1
        /\ slept = None
    /\ (pc = "send" /\ attempts >= 1) =>
        /\ sleeps = attempts
        /\ slept # None
    /\ ((pc = "check" \/ err = "GitHub search failed") /\ IsRateLimited(res.status)) =>
        /\ attempts = 3
        /\ requests = 3
        /\ sleeps = 3
        /\ slept # None

C19_Witness ==
    /\ pc = "exit"
    /\ err = "GitHub search failed"
    /\ res.status = 429
    /\ sleeps = 3
    /\ slept = 0

\* C15: a JSON body that parse_query_from_content parses to a query parses to
\* the same query inside a code fence (opening fence line with or without a
\* language tag, closing fence line).
C15_FencedParsesTheSame ==
    (ppc = "done" /\ plainResult.ok) => fencedResult = plainResult

C15_Witness ==
    /\ ppc = "done"
    /\ plainResult = ParseOk(<<"r", "i", "p", "g", "r", "e", "p">>)
    /\ fencedResult = plainResult
    /\ fenced = FenceMark \o <<"j", "s", "o", "n", "\n", "{">> \o Quoted(QueryKey)
                    \o <<":">> \o Quoted(<<"r", "i", "p", "g", "r", "e", "p">>)
                    \o <<"}", "\n">> \o FenceMark

====
